---------------------------- MODULE Spec2Model ----------------------------
(***************************************************************************)
(* State-machine model of the tap.az scrapers.                             *)
(*                                                                         *)
(*   prog = "robust"  : src/robust_scraper.py, main() driving              *)
(*                      RobustScraper.scrape_all / scrape_page /           *)
(*                      try_proxy_request / try_direct_request /           *)
(*                      save_results                                       *)
(*   prog = "laptops" : src/laptops.py, main() driving                     *)
(*                      TapAzScraperFixed.scrape / save_to_csv             *)
(*                                                                         *)
(* Text is a sequence of one-character strings; an HTML document is its    *)
(* text together with the element lists its selectors match and its        *)
(* pagination block.  The web server is the environment.                   *)
(***************************************************************************)
EXTENDS Integers, Sequences, FiniteSets, TLC

---------------------------------------------------------------------------
(* Bounds of the model *)

\* items of the small catalogues: 0 .. SmallTotal
SmallTotal == 5
\* items of the large catalogues (enough pages to pass 500 products)
LargeTotal == 521
\* largest max_pages argument tried
MaxPagesArg == 4

---------------------------------------------------------------------------
(* Program constants *)

\* robust_scraper.py:52  len(text) < 100
MinHtmlLen == 100
\* robust_scraper.py:163 elements[:20]
ElementLimit == 20
\* robust_scraper.py:305 total_products % 500
BackupEvery == 500
\* robust_scraper.py:63-72 three proxy strategies
ProxyStrategies == 3
\* laptops.py:317 len(html_content) < 1000
MinLaptopHtmlLen == 1000

---------------------------------------------------------------------------
(* Text *)

Fill(n) == [i \in 1..n |-> " "]

\* prefix padded with blanks to length n (n >= Len(prefix))
Text(prefix, n) == prefix \o Fill(n - Len(prefix))

UpperCase == <<"A", "B", "C", "D", "E", "F", "G", "H", "I", "J", "K", "L", "M",
              "N", "O", "P", "Q", "R", "S", "T", "U", "V", "W", "X", "Y", "Z">>
LowerCase == <<"a", "b", "c", "d", "e", "f", "g", "h", "i", "j", "k", "l", "m",
              "n", "o", "p", "q", "r", "s", "t", "u", "v", "w", "x", "y", "z">>

\* str.lower() on one character (ASCII letters)
LowerChar(c) ==
    IF \E i \in 1..Len(UpperCase) : UpperCase[i] = c
    THEN LowerCase[CHOOSE i \in 1..Len(UpperCase) : UpperCase[i] = c]
    ELSE c

Lower(text) == [i \in 1..Len(text) |-> LowerChar(text[i])]

\* Python's `needle in text`
Contains(needle, text) ==
    \E i \in 1..(Len(text) - Len(needle) + 1) :
        SubSeq(text, i, i + Len(needle) - 1) = needle

\* robust_scraper.py:56
html_indicators ==
    << <<"<","h","t","m","l">>,
       <<"<","h","e","a","d">>,
       <<"<","b","o","d","y">>,
       <<"<","!","d","o","c","t","y","p","e">>,
       <<"n","o","u","t","b","u","k">>,
       <<"l","a","p","t","o","p">> >>

\* a faulty variant of is_valid_html: the length test dropped
is_valid_html_nolen(text) ==
    \E k \in 1..Len(html_indicators) : Contains(html_indicators[k], Lower(text))

\* a faulty variant of is_valid_html: the text is not lower-cased
is_valid_html_nolower(text) ==
    /\ ~(text = <<>> \/ Len(text) < MinHtmlLen)
    /\ \E k \in 1..Len(html_indicators) : Contains(html_indicators[k], text)

\* RobustScraper.is_valid_html
is_valid_html(text) ==
    IF text = <<>> \/ Len(text) < MinHtmlLen
    THEN FALSE
    ELSE \E k \in 1..Len(html_indicators) :
             Contains(html_indicators[k], Lower(text))

---------------------------------------------------------------------------
(* HTML documents *)

\* the "N/A" placeholder of parse_products (robust_scraper.py:174,179,184,191)
NA == <<"N/A">>
\* a sub-selector that matched nothing
NoElem == <<>>
\* Python None for a cursor; the regex [^&]+ never yields an empty token
NoCursor == <<>>
\* RobustScraper.base_url, robust_scraper.py:23
base_url == "https://tap.az"

\* robust_scraper.py:152-156
selectors == << "div.products-i", "div[data-ad-id]", "a[href*=noutbuklar]" >>

\* urljoin(self.base_url, href)
urljoin(base, href) == <<base>> \o href

\* a faulty variant of extract_product: a product needs a price and a link
extract_product_strict(element, selector) ==
    IF /\ element.has_div
       /\ element.div.name # <<>> /\ element.div.name # <<"N/A">>
       /\ element.div.price # <<>> /\ element.div.link # <<>>
    THEN << [name |-> element.div.name, price |-> element.div.price,
             location |-> <<"N/A">>,
             url |-> <<"https://tap.az">> \o element.div.link,
             strategy |-> selector] >>
    ELSE <<>>

\* robust_scraper.py:166-206, one element of the selected list.
\* An element is [tag, has_div, div, href]: div is the container the fields
\* are read from (the element itself, or find_parent('div') of an <a>;
\* has_div is FALSE if the <a> has no div ancestor), a container is
\* [name, price, link, created].
\* The result is <<>> (skipped) or a one-element list.
extract_product(element, selector) ==
    IF ~element.has_div
    THEN <<>>
    ELSE LET product_div == element.div
             name  == IF product_div.name = NoElem THEN NA ELSE product_div.name
             price == IF product_div.price = NoElem THEN NA ELSE product_div.price
             url   == IF product_div.link # NoElem
                        THEN urljoin(base_url, product_div.link)
                      ELSE IF element.tag = "a"
                        THEN urljoin(base_url, element.href)
                      ELSE NA
             location == IF product_div.created # NoElem
                            /\ Len(product_div.created) > 1
                         THEN <<product_div.created[1]>>
                         ELSE NA
         IN  IF name # NA /\ (price # NA \/ url # NA)
             THEN << [name |-> name, price |-> price, location |-> location,
                      url |-> url, strategy |-> selector] >>
             ELSE <<>>

\* elements[:20]
FirstN(seq, n) == SubSeq(seq, 1, IF Len(seq) < n THEN Len(seq) ELSE n)

RECURSIVE extract_all(_, _)
\* robust_scraper.py:163-210, the loop over the elements of one selector
extract_all(elements, selector) ==
    IF elements = <<>>
    THEN <<>>
    ELSE extract_product(Head(elements), selector)
             \o extract_all(Tail(elements), selector)

RECURSIVE parse_from_first_match(_, _)
\* a faulty variant of parse_from: the loop ends at the first selector that
\* matches an element, whether or not it gave a product
parse_from_first_match(html, k) ==
    IF k > Len(selectors)
    THEN <<>>
    ELSE IF html.elements[selectors[k]] # <<>>
    THEN extract_all(FirstN(html.elements[selectors[k]], ElementLimit), selectors[k])
    ELSE parse_from_first_match(html, k + 1)

RECURSIVE parse_from(_, _)
\* robust_scraper.py:158-213, the loop over the selectors from the k-th on
parse_from(html, k) ==
    IF k > Len(selectors)
    THEN <<>>
    ELSE LET elements == html.elements[selectors[k]]
             products == extract_all(FirstN(elements, ElementLimit), selectors[k])
         IN  IF elements # <<>> /\ products # <<>>
             THEN products
             ELSE parse_from(html, k + 1)

\* RobustScraper.parse_products
parse_products(html) == parse_from(html, 1)

cursor_key == <<"c","u","r","s","o","r","=">>

\* the maximal run of characters other than "&" starting at position i
RECURSIVE TokenAt(_, _)
TokenAt(href, i) ==
    IF i > Len(href) \/ href[i] = "&"
    THEN <<>>
    ELSE <<href[i]>> \o TokenAt(href, i + 1)

\* re.search(r'cursor=([^&]+)', href): the leftmost match, group 1
cursor_search(href) ==
    LET n == Len(cursor_key)
        hits == { i \in 1..(Len(href) - n + 1) :
                    /\ SubSeq(href, i, i + n - 1) = cursor_key
                    /\ TokenAt(href, i + n) # <<>> }
    IN  IF hits = {}
        THEN NoCursor
        ELSE LET first == CHOOSE i \in hits : \A j \in hits : i <= j
             IN  TokenAt(href, first + n)

\* RobustScraper.extract_next_cursor.  html.pagination is
\* [present, links, next]: the first div.pagination and the hrefs of its <a>
\* elements in document order (<<>> for an <a> without href); the code does
\* not look at which of them is the "next" control.
extract_next_cursor(html) ==
    IF ~html.pagination.present \/ html.pagination.links = <<>>
    THEN NoCursor
    ELSE LET href == html.pagination.links[1]
         IN  IF href # <<>> /\ Contains(cursor_key, href)
             THEN cursor_search(href)
             ELSE NoCursor

---------------------------------------------------------------------------
(* The web server (environment) *)

Digits == <<"0","1","2","3","4","5","6","7","8","9">>

\* the cursor token of result page k (1 <= k <= 99)
Token(k) == << Digits[(k \div 10) + 1], Digits[(k % 10) + 1] >>

DigitVal(c) == CHOOSE d \in 0..9 : Digits[d + 1] = c

\* the result page a request for laptops_url[?cursor=<cursor>] addresses
PageIndex(cur) ==
    IF cur = NoCursor THEN 1 ELSE DigitVal(cur[1]) * 10 + DigitVal(cur[2])

\* a catalogue is [perPage, total]: items 1..total, perPage of them a page
Catalogue(perPage, total) == [perPage |-> perPage, total |-> total]

SmallCatalogues == { Catalogue(2, t) : t \in 0..SmallTotal }
MediumCatalogues == { Catalogue(ElementLimit + 5, ElementLimit + 10) }
LargeCatalogues ==
    { Catalogue(ElementLimit, LargeTotal), Catalogue(ElementLimit - 1, LargeTotal) }

ItemsOfPage(cat, k) ==
    LET lo == (k - 1) * cat.perPage + 1
        hi == IF k * cat.perPage < cat.total THEN k * cat.perPage ELSE cat.total
    IN  [i \in 1..(IF hi >= lo THEN hi - lo + 1 ELSE 0) |-> lo + i - 1]

Container(n) ==
    [name |-> <<"laptop", ToString(n)>>, price |-> <<"100", "AZN">>,
     link |-> <<"/elanlar/elektronika/noutbuklar/", ToString(n)>>,
     created |-> <<"Baki", "bugun">>]

DivElement(n) == [tag |-> "div", has_div |-> TRUE, div |-> Container(n), href |-> <<>>]

NoElements == [s \in {selectors[k] : k \in 1..Len(selectors)} |-> <<>>]

\* next is the position in links of the link that is the "next" control
\* (0: there is none)
NoPagination == [present |-> FALSE, links |-> <<>>, next |-> 0]

NextLink(k) ==
    [present |-> TRUE, links |-> << <<"?">> \o cursor_key \o Token(k) >>, next |-> 1]

HtmlMarker == <<"<","h","t","m","l">>

\* the text of a served listing page
PageText == Text(HtmlMarker, MinHtmlLen + 20)
\* a body too short to be a page
ShortText == Text(HtmlMarker, MinHtmlLen - 1)
\* a long body with no indicator (a block page)
BlockText == Fill(MinHtmlLen + 20)

\* the listing page k of the catalogue
ListingPage(cat, k) ==
    LET items == ItemsOfPage(cat, k)
    IN  [text |-> PageText,
         elements |-> [NoElements EXCEPT
                          !["div.products-i"] =
                              [i \in 1..Len(items) |-> DivElement(items[i])]],
         pagination |-> IF k * cat.perPage < cat.total
                        THEN NextLink(k + 1) ELSE NoPagination]

\* the bodies the server may answer a request for page k with
Bodies(cat, k) ==
    { ListingPage(cat, k),
      \* the listing without its pagination block
      [ListingPage(cat, k) EXCEPT !.pagination = NoPagination],
      \* a page with no listing on it that still links to a next page
      [text |-> PageText, elements |-> NoElements, pagination |-> NextLink(k + 1)],
      [text |-> ShortText, elements |-> NoElements, pagination |-> NoPagination],
      [text |-> BlockText, elements |-> NoElements, pagination |-> NoPagination] }

\* session.get raised (timeout, connection error)
TransportError ==
    [error |-> TRUE, status |-> 0,
     html |-> [text |-> <<>>, elements |-> NoElements, pagination |-> NoPagination]]

\* what one GET for page k may produce
Responses(cat, k, net) ==
    IF net = "steady"
    THEN { [error |-> FALSE, status |-> 200, html |-> ListingPage(cat, k)] }
    ELSE {TransportError}
           \cup { [error |-> FALSE, status |-> st, html |-> h] :
                     st \in {200, 503}, h \in Bodies(cat, k) }

---------------------------------------------------------------------------
(* State *)

VARIABLES
    prog,            \* which script runs
    pc,              \* its position
    catalogue,       \* what the server holds (environment)
    network,         \* "any": requests may fail; "steady": they do not
    max_pages,       \* the max_pages argument
    \* RobustScraper.scrape_all
    all_products, cursor, page_count, total_products, methods_used,
    \* RobustScraper.scrape_page / try_proxy_request
    strategy, response, method, products, next_cursor,
    \* RobustScraper.save_results: the call in progress
    save,
    \* TapAzScraperFixed.scrape: all_listings, the loop variable, self.listings
    all_listings, page, self_listings,
    \* the argument and the result of a function applied on its own, and the
    \* result of applying it to the same argument a second time
    fn_input, fn_output, fn_again,
    \* the clock datetime.now() reads
    now,
    \* the file system: file name -> [state, content]
    files,
    \* the log lines that end a session, and the session report
    log, report,
    \* "no", or the position a KeyboardInterrupt arrived at
    interrupted,
    \* history: the attempts of the current strategy chain
    attempts,
    \* history: page fetches so far (scrape_page calls / page GETs), and
    \* page fetches since the last inter-page sleep
    fetches, since_delay,
    \* history: number of fetches at the first page that had no next cursor
    \* or no record (0 = none yet)
    end_seen,
    \* history: what each processed page yielded, in fetch order
    extracted,
    \* history: number of completed final save_results / save_to_csv calls
    flushes

vars == << prog, pc, catalogue, network, max_pages, all_products, cursor, page_count,
           total_products, methods_used, strategy, response, method, products,
           next_cursor, save, all_listings, page, self_listings, fn_input,
           fn_output, fn_again, now, files, log, report, interrupted, attempts, fetches,
           since_delay, end_seen, extracted, flushes >>

\* max_pages=None, robust_scraper.py:260
NoLimit == -1

\* Python truthiness of max_pages
Truthy(n) == n # NoLimit /\ n # 0

NoResponse == [error |-> TRUE, status |-> -1,
               html |-> [text |-> <<>>, elements |-> NoElements,
                         pagination |-> NoPagination]]

NoSave == [method |-> <<>>, filename |-> <<>>, ret |-> "none"]
NoLog == [level |-> "none", msg |-> "none"]
NoReport == [pages |-> -1, products |-> -1]

\* the strategies in their configured order: robust_scraper.py:63-72, 243-250
StrategyOrder == <<"proxy1", "proxy2", "proxy3", "direct">>

InitCommon ==
    /\ pc = "main"
    /\ all_products = <<>>
    /\ cursor = NoCursor
    /\ page_count = 0
    /\ total_products = 0
    /\ methods_used = [proxy |-> 0, direct |-> 0, failed |-> 0]
    /\ strategy = 0
    /\ response = NoResponse
    /\ method = "none"
    /\ products = <<>>
    /\ next_cursor = NoCursor
    /\ save = NoSave
    /\ all_listings = <<>>
    /\ page = 0
    /\ self_listings = <<>>
    /\ fn_again = "unset"
    /\ now = 0
    /\ files = << >>
    /\ log = NoLog
    /\ report = NoReport
    /\ interrupted = "no"
    /\ attempts = <<>>
    /\ fetches = 0
    /\ since_delay = 0
    /\ end_seen = 0
    /\ extracted = <<>>
    /\ flushes = 0

\* main() calls scrape_all() without max_pages (robust_scraper.py:327, 371);
\* the other values are scrape_all's own parameter.  The large catalogues
\* are scraped over a steady network only.
InitRobust ==
    /\ prog = "robust"
    /\ \/ /\ catalogue \in SmallCatalogues \cup MediumCatalogues
          /\ network = "any"
          /\ max_pages \in {NoLimit} \cup 0..MaxPagesArg
       \/ /\ catalogue \in LargeCatalogues
          /\ network = "steady"
          /\ max_pages = NoLimit
    /\ fn_input = <<>>
    /\ fn_output = "unset"
    /\ InitCommon

---------------------------------------------------------------------------
(* robust_scraper.py *)

\* robust_scraper.py:262-268: main() calls scrape(), which calls scrape_all()
scrape_all_start ==
    /\ prog = "robust" /\ pc = "main"
    /\ pc' = "loop"
    /\ UNCHANGED << prog, catalogue, network, max_pages, all_products, cursor,
                    page_count, total_products, methods_used, strategy, response,
                    method, products, next_cursor, save, all_listings, page,
                    self_listings, fn_input, fn_output, fn_again, now, files, log,
                    report, interrupted, attempts, fetches, since_delay, end_seen,
                    extracted, flushes >>

\* a faulty variant of loop_limit_reached: the limit is ignored
loop_limit_never(limit, count) == FALSE

\* robust_scraper.py:273
loop_limit_reached(limit, count) == Truthy(limit) /\ count > limit

\* robust_scraper.py:270-279: the head of the while loop, up to the call of
\* scrape_page
scrape_all_loop ==
    /\ prog = "robust" /\ pc = "loop"
    /\ page_count' = page_count + 1
    /\ IF loop_limit_reached(max_pages, page_count + 1)
       THEN /\ log' = [level |-> "info", msg |-> "Reached maximum pages limit"]
            /\ pc' = "report"
            /\ UNCHANGED << strategy, attempts, fetches, since_delay >>
       ELSE /\ pc' = "proxy"
            /\ strategy' = 1
            /\ attempts' = <<>>
            /\ fetches' = fetches + 1
            /\ since_delay' = since_delay + 1
            /\ UNCHANGED log
    /\ UNCHANGED << prog, catalogue, network, max_pages, all_products, cursor,
                    total_products, methods_used, response, method, products,
                    next_cursor, save, all_listings, page, self_listings,
                    fn_input, fn_output, fn_again, now, files, report,
                    interrupted, end_seen, extracted, flushes >>

\* what an attempt amounted to (FetchAttempt.outcome), from the response alone
Outcome(r) ==
    IF r.error THEN "transport_error"
    ELSE IF r.status = 200 /\ is_valid_html(r.html.text) THEN "success"
    ELSE "invalid_payload"

\* a faulty variant of response_accepted: the payload is not validated
response_accepted_unchecked(r) == ~r.error /\ r.status = 200

\* robust_scraper.py:87 and :130 (an exception is caught at :93 / :136)
response_accepted(r) == ~r.error /\ r.status = 200 /\ is_valid_html(r.html.text)

\* a faulty variant of proxy_after: the loop does not return on success
proxy_after_noreturn(i, ok) ==
    IF i < ProxyStrategies THEN [pc |-> "proxy", strategy |-> i + 1]
    ELSE IF ok THEN [pc |-> "parse", strategy |-> i]
    ELSE [pc |-> "direct", strategy |-> i + 1]

\* robust_scraper.py:74-98, 246-250: where control goes after proxy strategy i
proxy_after(i, ok) ==
    IF ok THEN [pc |-> "parse", strategy |-> i]
    ELSE IF i < ProxyStrategies THEN [pc |-> "proxy", strategy |-> i + 1]
    ELSE [pc |-> "direct", strategy |-> i + 1]

\* RobustScraper.try_proxy_request, one iteration of its loop
\* (robust_scraper.py:74-96)
try_proxy_request ==
    /\ prog = "robust" /\ pc = "proxy"
    /\ \E r \in Responses(catalogue, PageIndex(cursor), network) :
         LET ok == response_accepted(r)
             after == proxy_after(strategy, ok)
         IN  /\ attempts' = Append(attempts,
                    [strategy |-> StrategyOrder[strategy], outcome |-> Outcome(r)])
             /\ response' = IF ok THEN r ELSE response
             /\ method' = "proxy"
             /\ pc' = after.pc
             /\ strategy' = after.strategy
    /\ UNCHANGED << prog, catalogue, network, max_pages, all_products, cursor,
                    page_count, total_products, methods_used, products,
                    next_cursor, save, all_listings, page, self_listings,
                    fn_input, fn_output, fn_again, now, files, log, report,
                    interrupted, fetches, since_delay, end_seen, extracted,
                    flushes >>

\* RobustScraper.try_direct_request (robust_scraper.py:100-139) called from
\* scrape_page (:246-253).  A failure of the homepage visit (:123) raises
\* like a failure of the page GET.  When the request fails scrape_page
\* returns [], None, "failed".
try_direct_request ==
    /\ prog = "robust" /\ pc = "direct"
    /\ \E r \in Responses(catalogue, PageIndex(cursor), network) :
         LET ok == response_accepted(r)
         IN  /\ attempts' = Append(attempts,
                    [strategy |-> StrategyOrder[strategy], outcome |-> Outcome(r)])
             /\ IF ok
                THEN /\ response' = r
                     /\ method' = "direct"
                     /\ pc' = "parse"
                     /\ UNCHANGED << products, next_cursor >>
                ELSE /\ response' = NoResponse
                     /\ method' = "failed"
                     /\ products' = <<>>
                     /\ next_cursor' = NoCursor
                     /\ pc' = "account"
    /\ UNCHANGED << prog, catalogue, network, max_pages, all_products, cursor,
                    page_count, total_products, methods_used, strategy, save,
                    all_listings, page, self_listings, fn_input, fn_output,
                    fn_again, now, files, log, report, interrupted, fetches,
                    since_delay, end_seen, extracted, flushes >>

\* robust_scraper.py:255-258: scrape_page parses the accepted response
scrape_page_parse ==
    /\ prog = "robust" /\ pc = "parse"
    /\ products' = parse_products(response.html)
    /\ next_cursor' = extract_next_cursor(response.html)
    /\ pc' = "account"
    /\ UNCHANGED << prog, catalogue, network, max_pages, all_products, cursor,
                    page_count, total_products, methods_used, strategy, response,
                    method, save, all_listings, page, self_listings, fn_input,
                    fn_output, fn_again, now, files, log, report, interrupted,
                    attempts, fetches, since_delay, end_seen, extracted, flushes >>

\* a faulty variant of no_products_log: every page is treated like a later page
no_products_log_lenient(count) ==
    [level |-> "info", msg |-> "No more products, reached end"]

\* robust_scraper.py:286-293: the line logged before the loop is left
no_products_log(count) ==
    IF count = 1
    THEN [level |-> "error", msg |-> "First page failed, stopping"]
    ELSE [level |-> "info", msg |-> "No more products, reached end"]

\* a faulty variant of extend: the page replaces what was accumulated
extend_replace(all, more) == more

\* robust_scraper.py:295 all_products.extend(products)
extend(all, more) == all \o more

\* robust_scraper.py:305
backup_due(total) == total % BackupEvery = 0 /\ total > 0

\* robust_scraper.py:282-308: scrape_all accounts for the page scrape_page
\* returned, up to the call of save_results
scrape_all_account ==
    /\ prog = "robust" /\ pc = "account"
    /\ methods_used' = [methods_used EXCEPT ![method] = @ + 1]
    /\ attempts' = <<>>
    /\ response' = NoResponse
    /\ extracted' = Append(extracted, products)
    /\ end_seen' = IF end_seen = 0 /\ (products = <<>> \/ next_cursor = NoCursor)
                   THEN fetches ELSE end_seen
    /\ IF products = <<>>
       THEN /\ log' = no_products_log(page_count)
            /\ pc' = "report"
            /\ UNCHANGED << all_products, total_products, save >>
       ELSE /\ all_products' = extend(all_products, products)
            /\ total_products' = total_products + Len(products)
            /\ IF backup_due(total_products + Len(products))
               THEN /\ save' = [method |-> <<"mixed", methods_used'>>,
                                filename |-> <<"backup", total_products + Len(products)>>,
                                ret |-> "advance"]
                    /\ pc' = "save_mark"
               ELSE /\ pc' = "advance"
                    /\ UNCHANGED save
            /\ UNCHANGED log
    /\ UNCHANGED << prog, catalogue, network, max_pages, cursor, page_count,
                    strategy, method, products, next_cursor, all_listings, page,
                    self_listings, fn_input, fn_output, fn_again, now, files,
                    report, interrupted, fetches, since_delay, flushes >>

\* product['scrape_method'] = method
Marked(product, m) ==
    [name |-> product.name, price |-> product.price,
     location |-> product.location, url |-> product.url,
     strategy |-> product.strategy, scrape_method |-> m]

\* the file <filename>.<ext>
File(filename, ext) == [name |-> filename, ext |-> ext]

\* files with file f set to v
Written(fs, f, v) == (f :> v) @@ fs

\* robust_scraper.py:331-337: save_results returns at once on an empty list,
\* else marks every product (the list is all_products itself)
save_results_mark ==
    /\ prog = "robust" /\ pc = "save_mark"
    /\ IF all_products = <<>>
       THEN /\ pc' = save.ret
            /\ save' = NoSave
            /\ UNCHANGED all_products
       ELSE /\ all_products' = [i \in 1..Len(all_products) |->
                                   Marked(all_products[i], save.method)]
            /\ pc' = "save_json_open"
            /\ UNCHANGED save
    /\ UNCHANGED << prog, catalogue, network, max_pages, cursor, page_count,
                    total_products, methods_used, strategy, response, method,
                    products, next_cursor, all_listings, page, self_listings,
                    fn_input, fn_output, fn_again, now, files, log, report,
                    interrupted, attempts, fetches, since_delay, end_seen,
                    extracted, flushes >>

\* robust_scraper.py:340 / :344: open(..., 'w') truncates the file
save_results_open(at, ext, then) ==
    /\ prog = "robust" /\ pc = at
    /\ files' = Written(files, File(save.filename, ext),
                        [state |-> "partial", content |-> <<>>])
    /\ pc' = then
    /\ UNCHANGED << prog, catalogue, network, max_pages, all_products, cursor,
                    page_count, total_products, methods_used, strategy, response,
                    method, products, next_cursor, save, all_listings, page,
                    self_listings, fn_input, fn_output, fn_again, now, log,
                    report, interrupted, attempts, fetches, since_delay, end_seen,
                    extracted, flushes >>

\* robust_scraper.py:341 json.dump and close
save_results_json ==
    /\ prog = "robust" /\ pc = "save_json_dump"
    /\ files' = Written(files, File(save.filename, "json"),
                        [state |-> "complete", content |-> all_products])
    /\ pc' = "save_csv_open"
    /\ UNCHANGED << prog, catalogue, network, max_pages, all_products, cursor,
                    page_count, total_products, methods_used, strategy, response,
                    method, products, next_cursor, save, all_listings, page,
                    self_listings, fn_input, fn_output, fn_again, now, log,
                    report, interrupted, attempts, fetches, since_delay, end_seen,
                    extracted, flushes >>

\* robust_scraper.py:345-350 header, rows, close, and the return
save_results_csv ==
    /\ prog = "robust" /\ pc = "save_csv_rows"
    /\ files' = Written(files, File(save.filename, "csv"),
                        [state |-> "complete", content |-> all_products])
    /\ pc' = save.ret
    /\ flushes' = IF save.ret = "exit" THEN flushes + 1 ELSE flushes
    /\ save' = NoSave
    /\ UNCHANGED << prog, catalogue, network, max_pages, all_products, cursor,
                    page_count, total_products, methods_used, strategy, response,
                    method, products, next_cursor, all_listings, page,
                    self_listings, fn_input, fn_output, fn_again, now, log,
                    report, interrupted, attempts, fetches, since_delay, end_seen,
                    extracted >>

\* a faulty variant of advance_after: a null cursor does not end the loop
advance_after_ignore(cur) == "delay"

\* a faulty variant of advance_after: the loop goes on without sleeping
advance_after_nosleep(cur) == IF cur = NoCursor THEN "report" ELSE "loop"

\* robust_scraper.py:311-316: where control goes once cursor is set
advance_after(cur) == IF cur = NoCursor THEN "report" ELSE "delay"

\* robust_scraper.py:310-313
scrape_all_advance ==
    /\ prog = "robust" /\ pc = "advance"
    /\ cursor' = next_cursor
    /\ pc' = advance_after(next_cursor)
    /\ log' = IF next_cursor = NoCursor
              THEN [level |-> "info", msg |-> "No next cursor found"]
              ELSE log
    /\ UNCHANGED << prog, catalogue, network, max_pages, all_products, page_count,
                    total_products, methods_used, strategy, response, method,
                    products, next_cursor, save, all_listings, page,
                    self_listings, fn_input, fn_output, fn_again, now, files,
                    report, interrupted, attempts, fetches, since_delay, end_seen,
                    extracted, flushes >>

\* robust_scraper.py:316 time.sleep(random.uniform(2, 5))
scrape_all_delay ==
    /\ prog = "robust" /\ pc = "delay"
    /\ since_delay' = 0
    /\ pc' = "loop"
    /\ UNCHANGED << prog, catalogue, network, max_pages, all_products, cursor,
                    page_count, total_products, methods_used, strategy, response,
                    method, products, next_cursor, save, all_listings, page,
                    self_listings, fn_input, fn_output, fn_again, now, files, log,
                    report, interrupted, attempts, fetches, end_seen, extracted,
                    flushes >>

\* robust_scraper.py:318-323: the session report and the return
scrape_all_report ==
    /\ prog = "robust" /\ pc = "report"
    /\ report' = [pages |-> page_count, products |-> total_products]
    /\ pc' = "main_result"
    /\ UNCHANGED << prog, catalogue, network, max_pages, all_products, cursor,
                    page_count, total_products, methods_used, strategy, response,
                    method, products, next_cursor, save, all_listings, page,
                    self_listings, fn_input, fn_output, fn_again, now, files, log,
                    interrupted, attempts, fetches, since_delay, end_seen,
                    extracted, flushes >>

\* robust_scraper.py:373-381, 429-430: main() saves what scrape() returned
main_result ==
    /\ prog = "robust" /\ pc = "main_result"
    /\ IF all_products # <<>>
       THEN /\ save' = [method |-> <<"full_scrape", methods_used>>,
                        filename |-> <<"robust_results">>, ret |-> "exit"]
            /\ pc' = "save_mark"
       ELSE /\ pc' = "exit"
            /\ UNCHANGED save
    /\ UNCHANGED << prog, catalogue, network, max_pages, all_products, cursor,
                    page_count, total_products, methods_used, strategy, response,
                    method, products, next_cursor, all_listings, page,
                    self_listings, fn_input, fn_output, fn_again, now, files, log,
                    report, interrupted, attempts, fetches, since_delay, end_seen,
                    extracted, flushes >>

\* robust_scraper.py:432-435: Ctrl+C raises KeyboardInterrupt wherever main()
\* is (no handler is installed; except Exception at :93, :136, :208 does not
\* catch it); main() prints and saves nothing.  (An interrupt caught by the
\* bare except of get_user_agent, :37-40, changes nothing and is not a step.)
main_interrupt ==
    /\ prog = "robust" /\ pc # "exit"
    /\ interrupted' = pc
    /\ pc' = "exit"
    /\ log' = [level |-> "print", msg |-> "Scraping interrupted by user"]
    /\ UNCHANGED << prog, catalogue, network, max_pages, all_products, cursor,
                    page_count, total_products, methods_used, strategy, response,
                    method, products, next_cursor, save, all_listings, page,
                    self_listings, fn_input, fn_output, fn_again, now, files,
                    report, attempts, fetches, since_delay, end_seen, extracted,
                    flushes >>

---------------------------------------------------------------------------

(* laptops.py *)

\* laptops.py:168-177
laptop_selectors ==
    << "div.products-i", "div[class*=products]", ".product-item", ".listing-item",
       "div[data-ad-id]", ".products-shop", ".card", "article" >>

\* TapAzScraperFixed._clean_text (laptops.py:120-122) on a text given as its
\* tokens: whitespace tokens are dropped, the words stay in order
_clean_text(text) == SelectSeq(text, LAMBDA w : w \notin {" ", "\n", "\r"})

\* laptops.py:206-278, the container at index i (0-based).  A container is
\* [ad_id, name, price, currency, created, link]; <<>> is a field whose
\* sub-selector matched nothing.  The result is <<>> (skipped) or a
\* one-element list.  scraped_at is datetime.now() (laptops.py:275), the
\* reading of the clock when the container is parsed.  brand, image_url and
\* the four flags (laptops.py:251-259, 268) are functions of the container
\* alone and are not carried.
parse_container(container, i) ==
    LET product_id == IF container.ad_id # NoElem
                      THEN container.ad_id ELSE <<"unknown", ToString(i)>>
    IN  IF container.name = NoElem \/ container.price = NoElem
        THEN <<>>
        ELSE << [id |-> product_id,
                 name |-> _clean_text(container.name),
                 price |-> container.price,
                 currency |-> IF container.currency # NoElem
                              THEN container.currency ELSE <<"AZN">>,
                 location |-> IF container.created # NoElem
                              THEN container.created ELSE <<"Unknown">>,
                 url |-> IF container.link # NoElem
                         THEN urljoin(base_url, container.link) ELSE <<>>,
                 scraped_at |-> now] >>

RECURSIVE parse_containers(_, _)
\* laptops.py:206-285, the loop over the containers from index i on
parse_containers(containers, i) ==
    IF i >= Len(containers)
    THEN <<>>
    ELSE parse_container(containers[i + 1], i) \o parse_containers(containers, i + 1)

RECURSIVE first_containers(_, _)
\* laptops.py:182-188: the containers of the first selector that has any
first_containers(html, k) ==
    IF k > Len(laptop_selectors)
    THEN <<>>
    ELSE IF html.elements[laptop_selectors[k]] # <<>>
    THEN html.elements[laptop_selectors[k]]
    ELSE first_containers(html, k + 1)

\* TapAzScraperFixed._parse_listings_from_html
_parse_listings_from_html(html) == parse_containers(first_containers(html, 1), 0)

\* laptops.py:314 as scrape sees it: the document html_content holds after
\* _decompress_response.  A payload is [framing, html]: the document and how
\* its bytes were framed.  UTF-8 bytes and gzip-framed UTF-8 bytes come back
\* as the document's text; bytes that are neither come back through
\* response.text as text that holds nothing of the document.
decompressed_document(r) ==
    IF r.payload.framing = "utf8" THEN r.payload.html
    ELSE IF r.payload.framing = "gzip" THEN r.payload.html
    ELSE [r.payload.html EXCEPT
             !.text = Fill(Len(r.payload.html.text)),
             !.elements = [s \in DOMAIN r.payload.html.elements |-> <<>>]]

LaptopContainer(ad, n) ==
    [ad_id |-> ad, name |-> <<"Lenovo", " ", "ThinkPad", ToString(n)>>,
     price |-> <<"850">>, currency |-> <<"AZN">>,
     created |-> <<"Baki", "bugun">>,
     link |-> <<"/elanlar/elektronika/noutbuklar/", ToString(n)>>]

NoLaptopElements == [s \in {laptop_selectors[k] : k \in 1..Len(laptop_selectors)} |-> <<>>]

LaptopDoc(len, containers) ==
    [text |-> Text(HtmlMarker, len),
     elements |-> [NoLaptopElements EXCEPT !["div.products-i"] = containers]]

\* the documents the server may answer the (always identical, laptops.py:298)
\* listing URL with
LaptopDocs ==
    { LaptopDoc(MinLaptopHtmlLen, << LaptopContainer(<<"ad", "1">>, 1),
                                     LaptopContainer(<<"ad", "2">>, 2) >>),
      LaptopDoc(MinLaptopHtmlLen, << LaptopContainer(<<"ad", "3">>, 3),
                                     LaptopContainer(NoElem, 4) >>),
      LaptopDoc(MinLaptopHtmlLen, << LaptopContainer(NoElem, 5) >>),
      LaptopDoc(MinLaptopHtmlLen,
                << [LaptopContainer(<<"ad", "6">>, 6) EXCEPT !.price = NoElem] >>),
      LaptopDoc(MinLaptopHtmlLen, <<>>),
      LaptopDoc(MinLaptopHtmlLen - 1, << LaptopContainer(<<"ad", "7">>, 7) >>) }

LaptopResponses ==
    { [error |-> TRUE, status |-> 0,
       payload |-> [framing |-> "utf8", html |-> LaptopDoc(0, <<>>)]] }
      \cup { [error |-> FALSE, status |-> st, payload |-> [framing |-> f, html |-> d]] :
                st \in {200, 503}, f \in {"utf8", "gzip", "binary"}, d \in LaptopDocs }

InitLaptops ==
    /\ prog = "laptops"
    /\ catalogue = Catalogue(0, 0)
    /\ network = "any"
    /\ max_pages \in 0..MaxPagesArg
    /\ fn_input = <<>>
    /\ fn_output = "unset"
    /\ InitCommon

\* laptops.py:289-294, 398-399: main() calls scrape()
scrape_start ==
    /\ prog = "laptops" /\ pc = "main"
    /\ pc' = "l_loop"
    /\ UNCHANGED << prog, catalogue, network, max_pages, all_products, cursor,
                    page_count, total_products, methods_used, strategy, response,
                    method, products, next_cursor, save, all_listings, page,
                    self_listings, fn_input, fn_output, fn_again, now, files, log,
                    report, interrupted, attempts, fetches, since_delay, end_seen,
                    extracted, flushes >>

\* laptops.py:296: for page in range(max_pages)
scrape_loop ==
    /\ prog = "laptops" /\ pc = "l_loop"
    /\ pc' = IF page < max_pages THEN "l_sleep" ELSE "l_done"
    /\ UNCHANGED << prog, catalogue, network, max_pages, all_products, cursor,
                    page_count, total_products, methods_used, strategy, response,
                    method, products, next_cursor, save, all_listings, page,
                    self_listings, fn_input, fn_output, fn_again, now, files, log,
                    report, interrupted, attempts, fetches, since_delay, end_seen,
                    extracted, flushes >>

\* laptops.py:302-304: time.sleep(random.uniform(3, 6)); the clock moves on
scrape_sleep ==
    /\ prog = "laptops" /\ pc = "l_sleep"
    /\ since_delay' = 0
    /\ now' = now + 1
    /\ pc' = "l_get"
    /\ UNCHANGED << prog, catalogue, network, max_pages, all_products, cursor,
                    page_count, total_products, methods_used, strategy, response,
                    method, products, next_cursor, save, all_listings, page,
                    self_listings, fn_input, fn_output, fn_again, files, log,
                    report, interrupted, attempts, fetches, end_seen, extracted,
                    flushes >>

\* a faulty variant of scrape_after_page: an empty page does not end the loop
scrape_after_page_goon(page_listings) == "l_loop"

\* laptops.py:329-335: continue after a page with listings, break after one
\* without
scrape_after_page(page_listings) ==
    IF page_listings # <<>> THEN "l_loop" ELSE "l_done"

\* laptops.py:307-341: the rest of one iteration
scrape_page_get ==
    /\ prog = "laptops" /\ pc = "l_get"
    /\ fetches' = fetches + 1
    /\ since_delay' = since_delay + 1
    /\ \E r \in LaptopResponses :
         IF r.error
         THEN \* :337-341 except Exception: break
              /\ pc' = "l_done"
              /\ UNCHANGED << page, files, extracted, end_seen, all_listings >>
         ELSE IF r.status # 200
         THEN \* :310-312 continue
              /\ pc' = "l_loop"
              /\ page' = page + 1
              /\ UNCHANGED << files, extracted, end_seen, all_listings >>
         ELSE LET html_content == decompressed_document(r)
              IN  IF html_content.text = <<>>
                       \/ Len(html_content.text) < MinLaptopHtmlLen
                  THEN \* :317-319 continue
                       /\ pc' = "l_loop"
                       /\ page' = page + 1
                       /\ UNCHANGED << files, extracted, end_seen, all_listings >>
                  ELSE LET page_listings == _parse_listings_from_html(html_content)
                       IN  /\ files' = Written(files,
                                  File(<<"decompressed_page", page + 1>>, "html"),
                                  [state |-> "complete", content |-> <<>>])
                           /\ extracted' = Append(extracted, page_listings)
                           /\ end_seen' = IF end_seen = 0 /\ page_listings = <<>>
                                          THEN fetches + 1 ELSE end_seen
                           /\ all_listings' = IF page_listings # <<>>
                                              THEN extend(all_listings, page_listings)
                                              ELSE all_listings
                           /\ pc' = scrape_after_page(page_listings)
                           /\ page' = page + 1
    /\ UNCHANGED << prog, catalogue, network, max_pages, all_products, cursor,
                    page_count, total_products, methods_used, strategy, response,
                    method, products, next_cursor, save, self_listings, fn_input,
                    fn_output, fn_again, now, log, report, interrupted, attempts,
                    flushes >>

\* laptops.py:343-345
scrape_done ==
    /\ prog = "laptops" /\ pc = "l_done"
    /\ self_listings' = all_listings
    /\ pc' = "l_main"
    /\ UNCHANGED << prog, catalogue, network, max_pages, all_products, cursor,
                    page_count, total_products, methods_used, strategy, response,
                    method, products, next_cursor, save, all_listings, page,
                    fn_input, fn_output, fn_again, now, files, log, report,
                    interrupted, attempts, fetches, since_delay, end_seen,
                    extracted, flushes >>

\* laptops.py:401-406
laptops_main_result ==
    /\ prog = "laptops" /\ pc = "l_main"
    /\ pc' = IF self_listings # <<>> THEN "l_csv_open" ELSE "exit"
    /\ UNCHANGED << prog, catalogue, network, max_pages, all_products, cursor,
                    page_count, total_products, methods_used, strategy, response,
                    method, products, next_cursor, save, all_listings, page,
                    self_listings, fn_input, fn_output, fn_again, now, files, log,
                    report, interrupted, attempts, fetches, since_delay, end_seen,
                    extracted, flushes >>

\* TapAzScraperFixed.save_to_csv, laptops.py:357: open(filename, 'w')
save_to_csv_open ==
    /\ prog = "laptops" /\ pc = "l_csv_open"
    /\ files' = Written(files, File(<<"tapaz_laptops">>, "csv"),
                        [state |-> "partial", content |-> <<>>])
    /\ pc' = "l_csv_rows"
    /\ UNCHANGED << prog, catalogue, network, max_pages, all_products, cursor,
                    page_count, total_products, methods_used, strategy, response,
                    method, products, next_cursor, save, all_listings, page,
                    self_listings, fn_input, fn_output, fn_again, now, log,
                    report, interrupted, attempts, fetches, since_delay, end_seen,
                    extracted, flushes >>

\* laptops.py:358-364: header, rows, close
save_to_csv_rows ==
    /\ prog = "laptops" /\ pc = "l_csv_rows"
    /\ files' = Written(files, File(<<"tapaz_laptops">>, "csv"),
                        [state |-> "complete", content |-> self_listings])
    /\ flushes' = flushes + 1
    /\ pc' = "exit"
    /\ UNCHANGED << prog, catalogue, network, max_pages, all_products, cursor,
                    page_count, total_products, methods_used, strategy, response,
                    method, products, next_cursor, save, all_listings, page,
                    self_listings, fn_input, fn_output, fn_again, now, log,
                    report, interrupted, attempts, fetches, since_delay, end_seen,
                    extracted >>

\* Ctrl+C: KeyboardInterrupt passes except Exception at laptops.py:337 and
\* :408; the process ends with a traceback
laptops_interrupt ==
    /\ prog = "laptops" /\ pc # "exit"
    /\ interrupted' = pc
    /\ pc' = "exit"
    /\ UNCHANGED << prog, catalogue, network, max_pages, all_products, cursor,
                    page_count, total_products, methods_used, strategy, response,
                    method, products, next_cursor, save, all_listings, page,
                    self_listings, fn_input, fn_output, fn_again, now, files, log,
                    report, attempts, fetches, since_delay, end_seen, extracted,
                    flushes >>

---------------------------------------------------------------------------
(* TapAzScraperFixed._decompress_response on byte payloads *)

\* A payload is a sequence of byte values.  The library codecs are reduced
\* to their framing: the header bytes they test, a stored body, and the
\* length or checksum byte that closes the stream.

\* U+FFFD, what errors='replace' puts for undecodable bytes
Replacement == 65533

IsContinuation(b) == b >= 128 /\ b <= 191
IsLead2(b) == b >= 194 /\ b <= 223

RECURSIVE Utf8Valid(_)
\* whether bytes.decode('utf-8') succeeds (one- and two-byte sequences)
Utf8Valid(b) ==
    IF b = <<>> THEN TRUE
    ELSE IF b[1] < 128 THEN Utf8Valid(Tail(b))
    ELSE IF IsLead2(b[1]) /\ Len(b) >= 2 /\ IsContinuation(b[2])
         THEN Utf8Valid(Tail(Tail(b)))
    ELSE FALSE

RECURSIVE Utf8Points(_)
\* the code points of str(b, 'utf-8', errors='replace')
Utf8Points(b) ==
    IF b = <<>> THEN <<>>
    ELSE IF b[1] < 128 THEN <<b[1]>> \o Utf8Points(Tail(b))
    ELSE IF IsLead2(b[1]) /\ Len(b) >= 2 /\ IsContinuation(b[2])
         THEN <<(b[1] - 192) * 64 + (b[2] - 128)>> \o Utf8Points(Tail(Tail(b)))
    ELSE <<Replacement>> \o Utf8Points(Tail(b))

\* the code points of str(b, 'ISO-8859-1')
Latin1Points(b) == b

\* a call that returned v / a call that raised
Returned(v) == [ok |-> TRUE, value |-> v]
Raises == [ok |-> FALSE, value |-> <<>>]

\* content.decode('utf-8'), laptops.py:75
decode_utf8(b) == IF Utf8Valid(b) THEN Returned(Utf8Points(b)) ELSE Raises

RECURSIVE SumBytes(_)
SumBytes(b) == IF b = <<>> THEN 0 ELSE b[1] + SumBytes(Tail(b))

\* the gzip magic number and the deflate method byte
GzipMagic == <<31, 139>>
GzipHeader == GzipMagic \o <<8>>
\* the zlib header for deflate with a 32K window (0x78 0x01)
ZlibHeader == <<120, 1>>

\* the framings of a body
Gzip(body) == GzipHeader \o body \o <<Len(body) % 256>>
Zlib(body) == ZlibHeader \o body \o <<(1 + SumBytes(body)) % 256>>
RawDeflate(body) == <<1, Len(body), 255 - Len(body)>> \o body

\* content.startswith(prefix)
startswith(b, prefix) ==
    Len(b) >= Len(prefix) /\ SubSeq(b, 1, Len(prefix)) = prefix

\* gzip.decompress(content)
gzip_decompress(b) ==
    IF /\ Len(b) >= Len(GzipHeader) + 1
       /\ startswith(b, GzipHeader)
       /\ b[Len(b)] = (Len(b) - Len(GzipHeader) - 1) % 256
    THEN Returned(SubSeq(b, Len(GzipHeader) + 1, Len(b) - 1))
    ELSE Raises

\* zlib.decompress(content)
zlib_decompress(b) ==
    IF /\ Len(b) >= Len(ZlibHeader) + 1
       /\ startswith(b, ZlibHeader)
       /\ b[Len(b)] = (1 + SumBytes(SubSeq(b, Len(ZlibHeader) + 1, Len(b) - 1))) % 256
    THEN Returned(SubSeq(b, Len(ZlibHeader) + 1, Len(b) - 1))
    ELSE Raises

\* zlib.decompress(content, -15)
raw_decompress(b) ==
    IF /\ Len(b) >= 3
       /\ b[1] = 1
       /\ b[2] = Len(b) - 3
       /\ b[3] = 255 - b[2]
    THEN Returned(SubSeq(b, 4, Len(b)))
    ELSE Raises

\* <decompressor>(content).decode('utf-8') inside one try block: either call
\* may raise
then_decode(r) == IF r.ok THEN decode_utf8(r.value) ELSE Raises

\* response.text: requests decodes the content with response.encoding and
\* errors='replace'; it does not raise
response_text(resp) ==
    IF resp.encoding = "utf-8"
    THEN Returned(Utf8Points(resp.content))
    ELSE Returned(Latin1Points(resp.content))

\* TapAzScraperFixed._decompress_response (laptops.py:64-113); the result is
\* [raised, text]
_decompress_response(resp) ==
    LET content == resp.content
        utf8 == decode_utf8(content)
        gz == IF startswith(content, GzipMagic)
              THEN then_decode(gzip_decompress(content)) ELSE Raises
        deflate == then_decode(zlib_decompress(content))
        raw == then_decode(raw_decompress(content))
        fallback == response_text(resp)
    IN  IF utf8.ok THEN [raised |-> FALSE, text |-> utf8.value]
        ELSE IF gz.ok THEN [raised |-> FALSE, text |-> gz.value]
        ELSE IF deflate.ok THEN [raised |-> FALSE, text |-> deflate.value]
        ELSE IF raw.ok THEN [raised |-> FALSE, text |-> raw.value]
        ELSE IF fallback.ok THEN [raised |-> FALSE, text |-> fallback.value]
        ELSE [raised |-> FALSE, text |-> <<>>]

\* the bytes bodies and unframed payloads are made of: "a", the two bytes
\* of U+00E9, a byte no UTF-8 text holds, and the header bytes
BodyBytes == {97, 195, 169, 255}
PlainBytes == BodyBytes \cup {31, 139, 120, 1}

\* bodies of up to two bytes
Bodies2 == {<<>>} \cup { <<x>> : x \in BodyBytes }
               \cup { <<x, y>> : x \in BodyBytes, y \in BodyBytes }

\* a framed stream whose closing byte is wrong
Damaged(b) == [b EXCEPT ![Len(b)] = (@ + 1) % 256]

DecompressContents ==
    Bodies2
      \cup { <<x, y, z>> : x \in PlainBytes, y \in BodyBytes, z \in BodyBytes }
      \cup { Gzip(body) : body \in Bodies2 }
      \cup { Zlib(body) : body \in Bodies2 }
      \cup { RawDeflate(body) : body \in Bodies2 }
      \cup { Damaged(Gzip(body)) : body \in Bodies2 }
      \cup { Damaged(Zlib(body)) : body \in Bodies2 }

DecompressInputs ==
    { [content |-> c, encoding |-> e] :
          c \in DecompressContents, e \in {"utf-8", "ISO-8859-1"} }

InitDecompress ==
    /\ prog = "decompress"
    /\ catalogue = Catalogue(0, 0)
    /\ network = "any"
    /\ max_pages = NoLimit
    /\ fn_input \in DecompressInputs
    /\ fn_output = "unset"
    /\ InitCommon

\* a call of _decompress_response(resp)
decompress ==
    /\ prog = "decompress" /\ pc = "main"
    /\ fn_output' = _decompress_response(fn_input)
    /\ pc' = "exit"
    /\ UNCHANGED << prog, catalogue, network, max_pages, all_products, cursor,
                    page_count, total_products, methods_used, strategy, response,
                    method, products, next_cursor, save, all_listings, page,
                    self_listings, fn_input, fn_again, now, files, log, report,
                    interrupted, attempts, fetches, since_delay, end_seen,
                    extracted, flushes >>

---------------------------------------------------------------------------
(* RobustScraper.parse_products and
   TapAzScraperFixed._parse_listings_from_html applied on their own *)

RECURSIVE selectors_tried(_, _)
\* robust_scraper.py:158-160, 212-213: the selectors soup.select was called
\* with (one log line each), from the k-th on
selectors_tried(html, k) ==
    IF k > Len(selectors)
    THEN <<>>
    ELSE LET elements == html.elements[selectors[k]]
             found == extract_all(FirstN(elements, ElementLimit), selectors[k])
         IN  IF elements # <<>> /\ found # <<>>
             THEN <<selectors[k]>>
             ELSE <<selectors[k]>> \o selectors_tried(html, k + 1)

RECURSIVE used_selector(_, _)
\* laptops.py:180-188: used_selector, "none" for None
used_selector(html, k) ==
    IF k > Len(laptop_selectors)
    THEN "none"
    ELSE IF html.elements[laptop_selectors[k]] # <<>>
    THEN laptop_selectors[k]
    ELSE used_selector(html, k + 1)

\* a container of the page under selector s with every sub-element
ParserBox(s, n) ==
    [name |-> <<"laptop", s, ToString(n)>>, price |-> <<"100", "AZN">>,
     link |-> <<"/elanlar/", s, ToString(n)>>, created |-> <<"Baki", "bugun">>]

\* the same container without some of its sub-elements, or with a title
\* element whose text is empty or is the text N/A
Shaped(box, shape) ==
    CASE shape = "full" -> box
      [] shape = "untitled" -> [box EXCEPT !.name = NoElem]
      [] shape = "title_only" -> [box EXCEPT !.price = NoElem, !.link = NoElem]
      [] shape = "no_price" -> [box EXCEPT !.price = NoElem]
      [] shape = "no_link" -> [box EXCEPT !.link = NoElem]
      [] shape = "empty_title" -> [box EXCEPT !.name = <<"">>]
      [] shape = "na_title" -> [box EXCEPT !.name = NA]

\* a <div> matched by a selector
DivOf(s, n, shape) ==
    [tag |-> "div", has_div |-> TRUE, div |-> Shaped(ParserBox(s, n), shape),
     href |-> <<>>]

\* an <a> matched by a selector, inside a <div> or not
AnchorOf(s, n, shape, inside) ==
    [tag |-> "a", has_div |-> inside, div |-> Shaped(ParserBox(s, n), shape),
     href |-> <<"/elanlar/elektronika/noutbuklar/", ToString(n)>>]

\* what div.products-i may match
ProductsILists ==
    { <<>>,
      << DivOf("i", 1, "untitled") >>,
      << DivOf("i", 1, "full") >>,
      << DivOf("i", 1, "untitled"), DivOf("i", 2, "full"), DivOf("i", 3, "no_price"),
         DivOf("i", 4, "no_link"), DivOf("i", 5, "title_only"),
         DivOf("i", 6, "empty_title"), DivOf("i", 7, "na_title") >>,
      [n \in 1..(ElementLimit + 1) |-> DivOf("i", n, "full")],
      [n \in 1..(ElementLimit + 1) |->
          DivOf("i", n, IF n <= ElementLimit THEN "untitled" ELSE "full")] }

\* what div[data-ad-id] may match
AdIdLists ==
    { <<>>, << DivOf("d", 1, "full") >>, << DivOf("d", 1, "title_only") >> }

\* what a[href*="/elanlar/elektronika/noutbuklar/"] may match
AnchorLists ==
    { <<>>,
      << AnchorOf("a", 1, "full", TRUE) >>,
      << AnchorOf("a", 1, "full", FALSE) >>,
      << AnchorOf("a", 1, "title_only", TRUE), AnchorOf("a", 2, "untitled", TRUE) >> }

ParserDocs ==
    { [text |-> PageText,
       elements |-> [NoElements EXCEPT ![selectors[1]] = e1,
                                       ![selectors[2]] = e2,
                                       ![selectors[3]] = e3],
       pagination |-> NoPagination] :
          e1 \in ProductsILists, e2 \in AdIdLists, e3 \in AnchorLists }

InitParser ==
    /\ prog = "parser"
    /\ catalogue = Catalogue(0, 0)
    /\ network = "any"
    /\ max_pages = NoLimit
    /\ fn_input \in ParserDocs
    /\ fn_output = "unset"
    /\ InitCommon

\* a call of parse_products(html)
parser_parse ==
    /\ prog = "parser" /\ pc = "main"
    /\ fn_output' = [products |-> parse_products(fn_input),
                     tried |-> selectors_tried(fn_input, 1)]
    /\ pc' = "parsed"
    /\ UNCHANGED << prog, catalogue, network, max_pages, all_products, cursor,
                    page_count, total_products, methods_used, strategy, response,
                    method, products, next_cursor, save, all_listings, page,
                    self_listings, fn_input, fn_again, now, files, log, report,
                    interrupted, attempts, fetches, since_delay, end_seen,
                    extracted, flushes >>

\* robust_scraper.py:295, 335-337: the products join all_products and
\* save_results marks every product of all_products
parser_save ==
    /\ prog = "parser" /\ pc = "parsed"
    /\ all_products' = [i \in 1..Len(fn_output.products) |->
                           Marked(fn_output.products[i], <<"test">>)]
    /\ pc' = "saved"
    /\ UNCHANGED << prog, catalogue, network, max_pages, cursor, page_count,
                    total_products, methods_used, strategy, response, method,
                    products, next_cursor, save, all_listings, page,
                    self_listings, fn_input, fn_output, fn_again, now, files, log,
                    report, interrupted, attempts, fetches, since_delay, end_seen,
                    extracted, flushes >>

\* a second call of parse_products with the same html
parser_parse_again ==
    /\ prog = "parser" /\ pc \in {"parsed", "saved"}
    /\ fn_again' = [products |-> parse_products(fn_input),
                    tried |-> selectors_tried(fn_input, 1)]
    /\ pc' = "exit"
    /\ UNCHANGED << prog, catalogue, network, max_pages, all_products, cursor,
                    page_count, total_products, methods_used, strategy, response,
                    method, products, next_cursor, save, all_listings, page,
                    self_listings, fn_input, fn_output, now, files, log, report,
                    interrupted, attempts, fetches, since_delay, end_seen,
                    extracted, flushes >>

\* a container of a listing page of laptops.py under selector s
ListingBox(s, n, shape) ==
    LET box == [ad_id |-> <<"ad", s, ToString(n)>>,
                name |-> <<"Lenovo", " ", s, ToString(n)>>,
                price |-> <<"850">>, currency |-> <<"AZN">>,
                created |-> <<"Baki", "bugun">>,
                link |-> <<"/elanlar/", s, ToString(n)>>]
    IN  CASE shape = "full" -> box
          [] shape = "untitled" -> [box EXCEPT !.name = NoElem]
          [] shape = "no_price" -> [box EXCEPT !.price = NoElem]
          [] shape = "no_link" -> [box EXCEPT !.link = NoElem]
          [] shape = "title_only" -> [box EXCEPT !.price = NoElem, !.link = NoElem]

ListingLists(s) ==
    { <<>>,
      << ListingBox(s, 1, "full") >>,
      << ListingBox(s, 1, "no_price") >>,
      << ListingBox(s, 1, "full"), ListingBox(s, 2, "no_price"),
         ListingBox(s, 3, "untitled"), ListingBox(s, 4, "no_link"),
         ListingBox(s, 5, "title_only"), ListingBox(s, 6, "full") >>,
      [n \in 1..(ElementLimit + 1) |-> ListingBox(s, n, "full")] }

ListingDocs ==
    { [text |-> Text(HtmlMarker, MinLaptopHtmlLen),
       elements |-> [NoLaptopElements EXCEPT ![laptop_selectors[1]] = e1,
                                             ![laptop_selectors[2]] = e2,
                                             ![laptop_selectors[8]] = e8]] :
          e1 \in ListingLists("i"), e2 \in ListingLists("p"), e8 \in ListingLists("r") }

InitListings ==
    /\ prog = "listings"
    /\ catalogue = Catalogue(0, 0)
    /\ network = "any"
    /\ max_pages = NoLimit
    /\ fn_input \in ListingDocs
    /\ fn_output = "unset"
    /\ InitCommon

\* a call of _parse_listings_from_html(html)
listings_parse ==
    /\ prog = "listings" /\ pc = "main"
    /\ fn_output' = [listings |-> _parse_listings_from_html(fn_input),
                     used_selector |-> used_selector(fn_input, 1)]
    /\ pc' = "parsed"
    /\ UNCHANGED << prog, catalogue, network, max_pages, all_products, cursor,
                    page_count, total_products, methods_used, strategy, response,
                    method, products, next_cursor, save, all_listings, page,
                    self_listings, fn_input, fn_again, now, files, log, report,
                    interrupted, attempts, fetches, since_delay, end_seen,
                    extracted, flushes >>

\* time passes between two calls
clock_tick ==
    /\ prog = "listings" /\ pc = "parsed"
    /\ now' = now + 1
    /\ pc' = "later"
    /\ UNCHANGED << prog, catalogue, network, max_pages, all_products, cursor,
                    page_count, total_products, methods_used, strategy, response,
                    method, products, next_cursor, save, all_listings, page,
                    self_listings, fn_input, fn_output, fn_again, files, log,
                    report, interrupted, attempts, fetches, since_delay, end_seen,
                    extracted, flushes >>

\* a second call of _parse_listings_from_html with the same html
listings_parse_again ==
    /\ prog = "listings" /\ pc \in {"parsed", "later"}
    /\ fn_again' = [listings |-> _parse_listings_from_html(fn_input),
                    used_selector |-> used_selector(fn_input, 1)]
    /\ pc' = "exit"
    /\ UNCHANGED << prog, catalogue, network, max_pages, all_products, cursor,
                    page_count, total_products, methods_used, strategy, response,
                    method, products, next_cursor, save, all_listings, page,
                    self_listings, fn_input, fn_output, now, files, log, report,
                    interrupted, attempts, fetches, since_delay, end_seen,
                    extracted, flushes >>

---------------------------------------------------------------------------
(* TapAzScraperFixed._extract_brand applied on its own *)

\* laptops.py:137-148: the brands table, in the order of the dict
brands ==
    << [brand |-> "Apple",
        keywords |-> << <<"a", "p", "p", "l", "e">>,
                      <<"m", "a", "c", "b", "o", "o", "k">> >>],
       [brand |-> "Lenovo",
        keywords |-> << <<"l", "e", "n", "o", "v", "o">>,
                      <<"t", "h", "i", "n", "k", "p", "a", "d">>,
                      <<"i", "d", "e", "a", "p", "a", "d">>,
                      <<"l", "e", "g", "i", "o", "n">> >>],
       [brand |-> "ASUS",
        keywords |-> << <<"a", "s", "u", "s">>,
                      <<"z", "e", "n", "b", "o", "o", "k">>,
                      <<"v", "i", "v", "o", "b", "o", "o", "k">>,
                      <<"r", "o", "g">>,
                      <<"t", "u", "f">> >>],
       [brand |-> "HP",
        keywords |-> << <<"h", "p">>,
                      <<"p", "a", "v", "i", "l", "i", "o", "n">>,
                      <<"e", "n", "v", "y">>,
                      <<"o", "m", "e", "n">>,
                      <<"v", "i", "c", "t", "u", "s">>,
                      <<"p", "r", "o", "b", "o", "o", "k">>,
                      <<"e", "l", "i", "t", "e", "b", "o", "o", "k">> >>],
       [brand |-> "Dell",
        keywords |-> << <<"d", "e", "l", "l">>,
                      <<"i", "n", "s", "p", "i", "r", "o", "n">>,
                      <<"l", "a", "t", "i", "t", "u", "d", "e">>,
                      <<"p", "r", "e", "c", "i", "s", "i", "o", "n">>,
                      <<"v", "o", "s", "t", "r", "o">>,
                      <<"a", "l", "i", "e", "n", "w", "a", "r", "e">> >>],
       [brand |-> "Acer",
        keywords |-> << <<"a", "c", "e", "r">>,
                      <<"a", "s", "p", "i", "r", "e">>,
                      <<"p", "r", "e", "d", "a", "t", "o", "r">>,
                      <<"n", "i", "t", "r", "o">>,
                      <<"s", "w", "i", "f", "t">> >>],
       [brand |-> "Samsung",
        keywords |-> << <<"s", "a", "m", "s", "u", "n", "g">> >>],
       [brand |-> "MSI",
        keywords |-> << <<"m", "s", "i">> >>],
       [brand |-> "Toshiba",
        keywords |-> << <<"t", "o", "s", "h", "i", "b", "a">> >>],
       [brand |-> "Huawei",
        keywords |-> << <<"h", "u", "a", "w", "e", "i">>,
                      <<"m", "a", "t", "e", "b", "o", "o", "k">> >>] >>

\* laptops.py:151: any(keyword in name_lower for keyword in keywords)
any_keyword_in(keywords, text) ==
    \E i \in 1..Len(keywords) : Contains(keywords[i], text)

RECURSIVE brand_from(_, _)
\* laptops.py:150-154: the loop over the table from the k-th entry on
brand_from(name_lower, k) ==
    IF k > Len(brands)
    THEN "Other"
    ELSE IF any_keyword_in(brands[k].keywords, name_lower)
    THEN brands[k].brand
    ELSE brand_from(name_lower, k + 1)

\* a faulty variant of _extract_brand: the name is not lower-cased
_extract_brand_nolower(name) == brand_from(name, 1)

\* TapAzScraperFixed._extract_brand
_extract_brand(name) == brand_from(Lower(name), 1)

LenovoTitle == <<"L", "e", "n", "o", "v", "o", " ", "T", "h", "i", "n", "k", "P", "a", "d", " ", "X", "1">>
GenericTitle == <<"G", "e", "n", "e", "r", "i", "c", " ", "L", "a", "p", "t", "o", "p", " ", "M", "o", "d", "e", "l", " ", "Z">>

BrandInputs ==
    { LenovoTitle,
      GenericTitle,
      <<>>,
      <<"M", "a", "c", "B", "o", "o", "k", " ", "P", "r", "o">>,
      <<"A", "P", "P", "L", "E">>,
      <<"H", "P", " ", "P", "a", "v", "i", "l", "i", "o", "n", " ", "1", "5">>,
      <<"D", "e", "l", "l", " ", "H", "P">>,
      <<"T", "h", "i", "n", "k", "P", "a", "d", " ", "b", "y", " ", "A", "p", "p", "l", "e">>,
      <<"a", "s", "u", "s", " ", "T", "U", "F">>,
      <<"A", "c", "e", "r", " ", "S", "w", "i", "f", "t">>,
      <<"S", "A", "M", "S", "U", "N", "G">>,
      <<"m", "s", "i">>,
      <<"T", "o", "s", "h", "i", "b", "a">>,
      <<"H", "u", "a", "w", "e", "i", " ", "M", "a", "t", "e", "B", "o", "o", "k">>,
      <<"P", "r", "o", "g", "r", "a", "m">>,
      <<"A", "l", "i", "e", "n", "w", "a", "r", "e">>,
      <<"N", "o", "t", "e", "b", "o", "o", "k">>,
      <<"L", "e", "g", "i", "o", "n", " ", "O", "m", "e", "n", " ", "N", "i", "t", "r", "o">> }

InitBrand ==
    /\ prog = "brand"
    /\ catalogue = Catalogue(0, 0)
    /\ network = "any"
    /\ max_pages = NoLimit
    /\ fn_input \in BrandInputs
    /\ fn_output = "unset"
    /\ InitCommon

\* a call of _extract_brand(name)
extract_brand ==
    /\ prog = "brand" /\ pc = "main"
    /\ fn_output' = _extract_brand(fn_input)
    /\ pc' = "exit"
    /\ UNCHANGED << prog, catalogue, network, max_pages, all_products, cursor,
                    page_count, total_products, methods_used, strategy, response,
                    method, products, next_cursor, save, all_listings, page,
                    self_listings, fn_input, fn_again, now, files, log, report,
                    interrupted, attempts, fetches, since_delay, end_seen,
                    extracted, flushes >>

---------------------------------------------------------------------------
(* The price analysis of main (robust_scraper.py:398-406) on one price *)

RECURSIVE replace(_, _)
\* str.replace(old, ''), old not empty
replace(text, old) ==
    IF Len(text) < Len(old)
    THEN text
    ELSE IF SubSeq(text, 1, Len(old)) = old
    THEN replace(SubSeq(text, Len(old) + 1, Len(text)), old)
    ELSE <<text[1]>> \o replace(Tail(text), old)

\* the ASCII digits, and a character str.isdigit accepts that float does not
\* (superscript two, written "sup2")
AsciiDigits == {"0", "1", "2", "3", "4", "5", "6", "7", "8", "9"}
OtherDigits == {"sup2"}

\* str.isdigit
isdigit(text) ==
    text # <<>> /\ \A i \in 1..Len(text) : text[i] \in AsciiDigits \cup OtherDigits

\* whether float(text) raises ValueError, for a text of digits and points
float_raises(text) ==
    \/ \E i \in 1..Len(text) : text[i] \in OtherDigits
    \/ Len(SelectSeq(text, LAMBDA c : c = ".")) > 1
    \/ SelectSeq(text, LAMBDA c : c # ".") = <<>>

RECURSIVE DigitsValue(_)
\* the number a text of ASCII digits writes
DigitsValue(text) ==
    IF text = <<>> THEN 0
    ELSE DigitsValue(SubSeq(text, 1, Len(text) - 1)) * 10
             + (CHOOSE d \in 0..9 : Digits[d + 1] = text[Len(text)])

\* the digits after the point
Fraction(text) ==
    IF \E i \in 1..Len(text) : text[i] = "."
    THEN SubSeq(text, (CHOOSE i \in 1..Len(text) : text[i] = ".") + 1, Len(text))
    ELSE <<>>

RECURSIVE Reduced(_, _)
\* num / 10^scale without trailing zeros: 85050 / 10^2 is 8505 / 10^1
Reduced(num, scale) ==
    IF scale > 0 /\ num % 10 = 0
    THEN Reduced(num \div 10, scale - 1)
    ELSE [null |-> FALSE, num |-> num, scale |-> scale]

\* float(text) for a text float accepts: the number num / 10^scale
float(text) ==
    Reduced(DigitsValue(SelectSeq(text, LAMBDA c : c # ".")), Len(Fraction(text)))

\* no number: the price is not appended to prices
Null == [null |-> TRUE, num |-> 0, scale |-> 0]

\* robust_scraper.py:401-406: what one price contributes to prices; the bare
\* except turns an exception of float into no number
price_of(price) ==
    LET clean_price ==
            replace(replace(replace(price, <<" ">>), <<",">>), <<"A", "Z", "N">>)
    IN  IF clean_price # <<>> /\ isdigit(replace(clean_price, <<".">>))
        THEN IF float_raises(clean_price) THEN Null ELSE float(clean_price)
        ELSE Null

PriceInputs ==
    { <<"1", " ", "2", "0", "0", " ", "A", "Z", "N">>,
      <<"1", ",", "2", "0", "0">>,
      <<>>,
      <<"N", "/", "A">>,
      <<"8", "5", "0", ".", "5", "0">>,
      <<"1", ".", "2", ".", "3">>,
      <<".">>,
      <<"1", "2", ".">>,
      <<".", "5">>,
      <<"1", " ", "2", "0", "0", " ", "a", "z", "n">>,
      <<"A", "Z", "N">>,
      <<"1", "\t", "2", "0", "0">>,
      <<"sup2">>,
      <<"0">>,
      <<"1", " ", "0", "0", "0", ".", "0", "0">> }

InitPrice ==
    /\ prog = "price"
    /\ catalogue = Catalogue(0, 0)
    /\ network = "any"
    /\ max_pages = NoLimit
    /\ fn_input \in PriceInputs
    /\ fn_output = "unset"
    /\ InitCommon

\* one iteration of the loop at robust_scraper.py:400-406
price_analysis ==
    /\ prog = "price" /\ pc = "main"
    /\ fn_output' = price_of(fn_input)
    /\ pc' = "exit"
    /\ UNCHANGED << prog, catalogue, network, max_pages, all_products, cursor,
                    page_count, total_products, methods_used, strategy, response,
                    method, products, next_cursor, save, all_listings, page,
                    self_listings, fn_input, fn_again, now, files, log, report,
                    interrupted, attempts, fetches, since_delay, end_seen,
                    extracted, flushes >>

---------------------------------------------------------------------------
(* RobustScraper.extract_next_cursor applied on its own *)

\* hrefs of links of a pagination block
Hrefs ==
    [ next |->
          <<"/", "e", "l", "a", "n", "l", "a", "r", "?", "c", "u", "r", "s", "o", "r", "=", "a", "b", "c", "1", "2", "3">>,
      prev |->
          <<"/", "e", "l", "a", "n", "l", "a", "r", "?", "c", "u", "r", "s", "o", "r", "=", "x", "y", "z", "7", "8", "9">>,
      next_more |->
          <<"/", "e", "l", "a", "n", "l", "a", "r", "?", "c", "u", "r", "s", "o", "r", "=", "a", "b", "c", "1", "2", "3", "&", "o", "r", "d", "e", "r", "=", "n", "e", "w">>,
      next_late |->
          <<"/", "e", "l", "a", "n", "l", "a", "r", "?", "o", "r", "d", "e", "r", "=", "n", "e", "w", "&", "c", "u", "r", "s", "o", "r", "=", "a", "b", "c", "1", "2", "3">>,
      no_cursor |->
          <<"/", "e", "l", "a", "n", "l", "a", "r", "?", "p", "a", "g", "e", "=", "2">>,
      empty_cursor |->
          <<"/", "e", "l", "a", "n", "l", "a", "r", "?", "c", "u", "r", "s", "o", "r", "=">> ]
\* an <a> without href
NoHref == <<>>

\* a pagination block with the given links, the n-th being the "next" control
Pagination(links, n) == [present |-> TRUE, links |-> links, next |-> n]

CursorPaginations ==
    { NoPagination,
      Pagination(<<>>, 0),
      Pagination(<<Hrefs.next>>, 1),
      Pagination(<<Hrefs.next_more>>, 1),
      Pagination(<<Hrefs.next_late>>, 1),
      Pagination(<<Hrefs.no_cursor>>, 1),
      Pagination(<<Hrefs.empty_cursor>>, 1),
      Pagination(<<NoHref>>, 1),
      Pagination(<<Hrefs.next, Hrefs.prev>>, 1),
      Pagination(<<Hrefs.prev, Hrefs.next>>, 2),
      Pagination(<<Hrefs.no_cursor, Hrefs.next>>, 2),
      Pagination(<<Hrefs.prev>>, 0),
      Pagination(<<Hrefs.prev, Hrefs.no_cursor>>, 2) }

CursorDocs ==
    { [text |-> PageText, elements |-> NoElements, pagination |-> p] :
          p \in CursorPaginations }

InitCursor ==
    /\ prog = "cursor"
    /\ catalogue = Catalogue(0, 0)
    /\ network = "any"
    /\ max_pages = NoLimit
    /\ fn_input \in CursorDocs
    /\ fn_output = "unset"
    /\ InitCommon

\* a call of extract_next_cursor(html)
resolve_cursor ==
    /\ prog = "cursor" /\ pc = "main"
    /\ fn_output' = extract_next_cursor(fn_input)
    /\ pc' = "exit"
    /\ UNCHANGED << prog, catalogue, network, max_pages, all_products, cursor,
                    page_count, total_products, methods_used, strategy, response,
                    method, products, next_cursor, save, all_listings, page,
                    self_listings, fn_input, fn_again, now, files, log, report,
                    interrupted, attempts, fetches, since_delay, end_seen,
                    extracted, flushes >>

---------------------------------------------------------------------------
(* RobustScraper.is_valid_html applied on its own *)

\* the texts tried: a prefix (or suffix) padded with blanks to a length
ValidatorPrefixes ==
    { <<>>,
      <<"<","h","t","m","l">>, <<"<","H","T","M","L">>,
      <<"<","h","e","a","d">>, <<"<","H","e","a","d">>,
      <<"<","b","o","d","y">>, <<"<","B","O","D","Y">>,
      <<"<","!","d","o","c","t","y","p","e">>,
      <<"<","!","D","O","C","T","Y","P","E">>,
      <<"d","o","c","t","y","p","e">>,
      <<"n","o","u","t","b","u","k">>, <<"N","o","u","t","b","u","k">>,
      <<"l","a","p","t","o","p">>, <<"L","A","P","T","O","P">>,
      <<"<","h","t","m">>, <<"t","a","b","l","e","t">> }

ValidatorLengths ==
    { 0, 20, MinHtmlLen - 1, MinHtmlLen, MinHtmlLen + 1, MinHtmlLen + 20 }

ValidatorShapes ==
    { pn \in ValidatorPrefixes \X ValidatorLengths : pn[2] >= Len(pn[1]) }

ValidatorInputs ==
    { Text(pn[1], pn[2]) : pn \in ValidatorShapes }
      \cup { Fill(pn[2] - Len(pn[1])) \o pn[1] : pn \in ValidatorShapes }

InitValidator ==
    /\ prog = "validator"
    /\ catalogue = Catalogue(0, 0)
    /\ network = "any"
    /\ max_pages = NoLimit
    /\ fn_input \in ValidatorInputs
    /\ fn_output = "unset"
    /\ InitCommon

\* a call of is_valid_html(text)
validate ==
    /\ prog = "validator" /\ pc = "main"
    /\ fn_output' = is_valid_html(fn_input)
    /\ pc' = "exit"
    /\ UNCHANGED << prog, catalogue, network, max_pages, all_products, cursor,
                    page_count, total_products, methods_used, strategy, response,
                    method, products, next_cursor, save, all_listings, page,
                    self_listings, fn_input, fn_again, now, files, log, report,
                    interrupted, attempts, fetches, since_delay, end_seen,
                    extracted, flushes >>

---------------------------------------------------------------------------

Init ==
    \/ InitRobust
    \/ InitLaptops
    \/ InitValidator
    \/ InitDecompress
    \/ InitParser
    \/ InitListings
    \/ InitBrand
    \/ InitPrice
    \/ InitCursor

Next ==
    \/ scrape_all_start
    \/ scrape_all_loop
    \/ try_proxy_request
    \/ try_direct_request
    \/ scrape_page_parse
    \/ scrape_all_account
    \/ save_results_mark
    \/ save_results_open("save_json_open", "json", "save_json_dump")
    \/ save_results_json
    \/ save_results_open("save_csv_open", "csv", "save_csv_rows")
    \/ save_results_csv
    \/ scrape_all_advance
    \/ scrape_all_delay
    \/ scrape_all_report
    \/ main_result
    \/ main_interrupt
    \/ scrape_start
    \/ scrape_loop
    \/ scrape_sleep
    \/ scrape_page_get
    \/ scrape_done
    \/ laptops_main_result
    \/ save_to_csv_open
    \/ save_to_csv_rows
    \/ laptops_interrupt
    \/ validate
    \/ decompress
    \/ parser_parse
    \/ parser_save
    \/ parser_parse_again
    \/ listings_parse
    \/ clock_tick
    \/ listings_parse_again
    \/ extract_brand
    \/ price_analysis
    \/ resolve_cursor

Spec == Init /\ [][Next]_vars

---------------------------------------------------------------------------
(* Properties *)

RECURSIVE Flatten(_)
\* the concatenation of a sequence of sequences
Flatten(seqs) == IF seqs = <<>> THEN <<>> ELSE Head(seqs) \o Flatten(Tail(seqs))

\* a product without the scrape_method key save_results adds
Extracted(product) ==
    [name |-> product.name, price |-> product.price,
     location |-> product.location, url |-> product.url,
     strategy |-> product.strategy]

ExtractedAll(list) == [i \in 1..Len(list) |-> Extracted(list[i])]

\* C1: within one page fetch the strategies are attempted in their
\* configured order (proxy 1, 2, 3, then direct), every attempt before the
\* last one failed, and once an attempt succeeded no further strategy is
\* attempted.
C1_StrategyChain ==
    prog = "robust" =>
        /\ \A i \in 1..Len(attempts) :
              /\ attempts[i].strategy = StrategyOrder[i]
              /\ i < Len(attempts) => attempts[i].outcome # "success"
        /\ (attempts # <<>> /\ attempts[Len(attempts)].outcome = "success")
              => pc \notin {"proxy", "direct"}
        /\ pc \in {"proxy", "direct"} => Len(attempts) = strategy - 1
        /\ pc = "parse" => attempts[Len(attempts)].outcome = "success"

\* C1 witness: the third proxy strategy succeeded after two failed
C1_Witness ==
    /\ prog = "robust" /\ pc = "parse"
    /\ Len(attempts) = 3
    /\ attempts[1].outcome = "transport_error"
    /\ attempts[2].outcome = "invalid_payload"
    /\ attempts[3].outcome = "success"

\* C2: when every strategy failed for a page, the session logs it as an
\* error (first page failed) exactly when it was the first page fetched;
\* on a later page it is logged as the end of the results, and what the
\* earlier pages yielded is kept and returned.
C2_FailedPage ==
    (prog = "robust" /\ pc \in {"report", "main_result"} /\ method = "failed")
        => /\ (log.level = "error") <=> (fetches = 1)
           /\ fetches > 1 => log.msg = "No more products, reached end"
           /\ ExtractedAll(all_products) = Flatten(extracted)
           /\ fetches > 1 => all_products # <<>>

\* C2 witness: the second page failed after the first yielded two records
C2_Witness ==
    /\ prog = "robust" /\ pc = "main_result" /\ method = "failed"
    /\ fetches = 2 /\ Len(all_products) = 2

C4_Accumulated ==
    /\ prog = "robust" => ExtractedAll(all_products) = Flatten(extracted)
    /\ prog = "laptops" =>
          /\ all_listings = Flatten(extracted)
          /\ pc \in {"l_main", "l_csv_open", "l_csv_rows"} => self_listings = all_listings

\* C4 witness: a session that went on after a backup at 500 products
C4_Witness ==
    /\ prog = "robust" /\ pc = "main_result"
    /\ Len(all_products) > BackupEvery
    /\ File(<<"backup", BackupEvery>>, "json") \in DOMAIN files

FinalJson == File(<<"robust_results">>, "json")
FinalCsv == File(<<"robust_results">>, "csv")

\* C5: when a session that accumulated records has ended, however it ended,
\* the accumulated sequence has been written to the final output exactly
\* once.
C5_FlushedOnEveryEnd ==
    (prog = "robust" /\ pc = "exit" /\ all_products # <<>>)
        => /\ flushes = 1
           /\ FinalJson \in DOMAIN files
           /\ files[FinalJson].state = "complete"
           /\ files[FinalJson].content = all_products
           /\ FinalCsv \in DOMAIN files
           /\ files[FinalCsv].state = "complete"
           /\ files[FinalCsv].content = all_products

\* the positions between two pages
BetweenPages == {"main", "loop", "delay", "report", "main_result"}

\* C6: an interrupt takes effect only between pages, and no file is left
\* partially written.
C6_InterruptBetweenPages ==
    prog = "robust" =>
        /\ interrupted # "no" => interrupted \in BetweenPages
        /\ \A f \in DOMAIN files : files[f].state = "complete"

\* the number of records in the largest complete snapshot
Snapshotted ==
    LET sizes == { Len(files[f].content) :
                     f \in { g \in DOMAIN files :
                               g.name[1] = "backup" /\ files[g].state = "complete" } }
    IN  IF sizes = {} THEN 0 ELSE CHOOSE n \in sizes : \A m \in sizes : m <= n

\* C7: once a page has been accounted for, a snapshot holds all records up
\* to the last multiple of 500 reached or passed.
C7_SnapshotEvery500 ==
    (prog = "robust" /\ pc \in {"advance", "delay", "loop"})
        => Snapshotted >= (total_products \div BackupEvery) * BackupEvery

\* C8: no two page fetches happen without an inter-page delay between them.
C8_DelayBetweenFetches == since_delay <= 1

\* C8 witness: the first fetch failed and the second is about to be made
\* after a delay
C8_Witness ==
    /\ prog = "laptops" /\ pc = "l_get"
    /\ fetches = 1 /\ extracted = <<>> /\ since_delay = 0

\* C9: no two listings of the accumulated sequence have the same id.
C9_UniqueIds ==
    prog = "laptops" =>
        \A i, j \in 1..Len(all_listings) :
            i # j => all_listings[i].id # all_listings[j].id

\* the markers and keywords the claim lists
ClaimedMarkers ==
    { <<"<","h","t","m","l">>, <<"<","h","e","a","d">>, <<"<","b","o","d","y">>,
      <<"d","o","c","t","y","p","e">>,
      <<"n","o","u","t","b","u","k">>, <<"l","a","p","t","o","p">> }

\* C10 as claimed: usable iff longer than 100 characters and holding,
\* case-insensitively, <html, <head, <body, doctype or a domain keyword.
C10_ValidatorAsClaimed ==
    (prog = "validator" /\ pc = "exit")
        => fn_output = (/\ Len(fn_input) > 100
                        /\ \E m \in ClaimedMarkers : Contains(m, Lower(fn_input)))

\* the markers and keywords as amended: the doctype marker is <!doctype
AmendedMarkers ==
    (ClaimedMarkers \ { <<"d","o","c","t","y","p","e">> })
        \cup { <<"<","!","d","o","c","t","y","p","e">> }

AmendedUsable(text) ==
    /\ Len(text) >= 100
    /\ \E m \in AmendedMarkers : Contains(m, Lower(text))

\* C10 amended: usable iff at least 100 characters long and holding,
\* case-insensitively, <html, <head, <body, <!doctype, noutbuk or laptop;
\* a response a strategy of RobustScraper accepted has status 200 and a
\* usable text.
C10_Validator ==
    /\ (prog = "validator" /\ pc = "exit") => fn_output = AmendedUsable(fn_input)
    /\ (prog = "robust" /\ pc = "parse")
          => response.status = 200 /\ AmendedUsable(response.html.text)

\* C10 witness: a text of exactly 100 characters with a mixed-case marker
\* was found usable
C10_Witness ==
    /\ prog = "validator" /\ pc = "exit"
    /\ Len(fn_input) = 100 /\ fn_output = TRUE
    /\ ~Contains(<<"<","h","e","a","d">>, fn_input)
    /\ Contains(<<"<","h","e","a","d">>, Lower(fn_input))

\* the texts a decompressed body may be read as
Readings(body) == { Utf8Points(body), Latin1Points(body) }

\* C11: _decompress_response returns instead of raising; a payload that is
\* UTF-8 text comes back as that text, and a payload that is valid gzip
\* framing comes back as the text of its decompressed body.
C11_Decoding ==
    (prog = "decompress" /\ pc = "exit") =>
        /\ ~fn_output.raised
        /\ Utf8Valid(fn_input.content)
              => fn_output.text = Utf8Points(fn_input.content)
        /\ gzip_decompress(fn_input.content).ok
              => fn_output.text \in Readings(gzip_decompress(fn_input.content).value)

\* the least member of a non-empty set of indices
Least(S) == CHOOSE k \in S : \A j \in S : k <= j

\* the selectors of parse_products / _parse_listings_from_html that match
\* at least one element of the page
Matching(html) == { k \in 1..Len(selectors) : html.elements[selectors[k]] # <<>> }
LaptopMatching(html) ==
    { k \in 1..Len(laptop_selectors) : html.elements[laptop_selectors[k]] # <<>> }

\* an element parse_products can make a product of: it has a container with
\* a title, and a price or a link (an <a> is its own link)
HasFields(e) ==
    /\ e.has_div
    /\ e.div.name # NoElem /\ e.div.name # NA
    /\ \/ e.div.price # NoElem /\ e.div.price # NA
       \/ e.div.link # NoElem
       \/ e.tag = "a"

\* the selectors with such an element among the first ElementLimit matched
Yielding(html) ==
    { k \in 1..Len(selectors) :
        \E i \in 1..Len(html.elements[selectors[k]]) :
            i <= ElementLimit /\ HasFields(html.elements[selectors[k]][i]) }

\* the listings all come from the containers of one selector, the first
\* that matches
ListingsOfFirstMatch ==
    LET m == LaptopMatching(fn_input)
    IN  IF m = {}
        THEN fn_output.listings = <<>> /\ fn_output.used_selector = "none"
        ELSE LET containers == fn_input.elements[laptop_selectors[Least(m)]]
             IN  /\ fn_output.used_selector = laptop_selectors[Least(m)]
                 /\ \A i \in 1..Len(fn_output.listings) :
                        \E j \in 1..Len(containers) :
                            /\ containers[j].name # NoElem
                            /\ fn_output.listings[i].name
                                   = _clean_text(containers[j].name)

\* C12 as claimed: the records of a page come only from the first selector
\* that matches at least one element, and no later selector is consulted.
C12_FirstMatchWins ==
    /\ (prog = "parser" /\ pc = "exit") =>
          LET m == Matching(fn_input)
          IN  IF m = {}
              THEN fn_output.products = <<>>
              ELSE /\ \A i \in 1..Len(fn_output.products) :
                          fn_output.products[i].strategy = selectors[Least(m)]
                   /\ fn_output.tried = SubSeq(selectors, 1, Least(m))
    /\ (prog = "listings" /\ pc = "exit") => ListingsOfFirstMatch

\* C12 amended: the records of parse_products come only from the first
\* selector that yields at least one record (a selector whose first
\* ElementLimit elements give no record is passed over and the next one is
\* consulted), no selector after it is consulted and none are merged;
\* _parse_listings_from_html takes the first selector that matches an element.
C12_FirstYieldWins ==
    /\ (prog = "parser" /\ pc = "exit") =>
          LET y == Yielding(fn_input)
          IN  IF y = {}
              THEN fn_output.products = <<>> /\ fn_output.tried = selectors
              ELSE /\ fn_output.products # <<>>
                   /\ \A i \in 1..Len(fn_output.products) :
                          fn_output.products[i].strategy = selectors[Least(y)]
                   /\ fn_output.tried = SubSeq(selectors, 1, Least(y))
    /\ (prog = "listings" /\ pc = "exit") => ListingsOfFirstMatch

\* C12 witness: the first selector matched elements that gave no record and
\* the records come from a later selector
C12_Witness ==
    /\ prog = "parser" /\ pc = "exit"
    /\ 1 \in Matching(fn_input)
    /\ fn_output.products # <<>>
    /\ fn_output.products[1].strategy = selectors[2]

\* the titles of the elements of a list that satisfy a condition, in order
TitlesWhere(elements, Test(_)) ==
    LET kept == SelectSeq(elements, Test)
    IN  [i \in 1..Len(kept) |-> kept[i].div.name]

\* the selector parse_products settled on: the last one it consulted
Selected == fn_output.tried[Len(fn_output.tried)]

\* a container of a listing page with a title and a price or a link
ListingHasClaimedFields(c) ==
    c.name # NoElem /\ (c.price # NoElem \/ c.link # NoElem)

\* a container of a listing page with a title and a price
ListingHasFields(c) == c.name # NoElem /\ c.price # NoElem

\* the containers _parse_listings_from_html works on
SelectedContainers ==
    IF LaptopMatching(fn_input) = {}
    THEN <<>>
    ELSE fn_input.elements[laptop_selectors[Least(LaptopMatching(fn_input))]]

\* the cleaned titles of the containers that satisfy a condition, in order
ListingTitlesWhere(containers, Test(_)) ==
    LET kept == SelectSeq(containers, Test)
    IN  [i \in 1..Len(kept) |-> _clean_text(kept[i].name)]

\* C13 as claimed: the records are, in document order, exactly the matched
\* containers of the selected rule that have a title and a price or a url.
C13_EveryContainer ==
    /\ (prog = "parser" /\ pc = "exit") =>
          [i \in 1..Len(fn_output.products) |-> fn_output.products[i].name]
              = TitlesWhere(fn_input.elements[Selected], HasFields)
    /\ (prog = "listings" /\ pc = "exit") =>
          [i \in 1..Len(fn_output.listings) |-> fn_output.listings[i].name]
              = ListingTitlesWhere(SelectedContainers, ListingHasClaimedFields)

\* C13 amended: parse_products looks at the first ElementLimit elements the
\* selected rule matched and gives, in document order, one record for each
\* that has a title and a price or a url; _parse_listings_from_html gives,
\* in document order, one record for each matched container that has a
\* title and a price.  The others are skipped.
C13_Containers ==
    /\ (prog = "parser" /\ pc = "exit") =>
          [i \in 1..Len(fn_output.products) |-> fn_output.products[i].name]
              = TitlesWhere(FirstN(fn_input.elements[Selected], ElementLimit),
                            HasFields)
    /\ (prog = "listings" /\ pc = "exit") =>
          [i \in 1..Len(fn_output.listings) |-> fn_output.listings[i].name]
              = ListingTitlesWhere(SelectedContainers, ListingHasFields)

\* C13 witness: a page whose selected rule matched seven containers, three
\* of them without the mandatory fields, gave four records
C13_Witness ==
    /\ prog = "parser" /\ pc = "exit"
    /\ Len(fn_input.elements[Selected]) = 7
    /\ Len(fn_output.products) = 4

\* C14: a second application of the extraction to the same HTML gives the
\* output the first one gave.
C14_Idempotent ==
    (prog \in {"parser", "listings"} /\ pc = "exit") => fn_again = fn_output

\* whether some keyword of the k-th category occurs in the lower-cased title
Hit(k, title) ==
    \E i \in 1..Len(brands[k].keywords) : Contains(brands[k].keywords[i], Lower(title))

\* C15: _extract_brand gives the first category of the table with a keyword
\* occurring in the lower-cased title, "Other" exactly when there is none;
\* "Lenovo ThinkPad X1" gives "Lenovo", "Generic Laptop Model Z" gives "Other".
C15_Brand ==
    (prog = "brand" /\ pc = "exit") =>
        /\ fn_output = "Other" <=> \A k \in 1..Len(brands) : ~Hit(k, fn_input)
        /\ fn_output # "Other" =>
              \E k \in 1..Len(brands) :
                  /\ fn_output = brands[k].brand
                  /\ Hit(k, fn_input)
                  /\ \A j \in 1..(k - 1) : ~Hit(j, fn_input)
        /\ fn_input = LenovoTitle => fn_output = "Lenovo"
        /\ fn_input = GenericTitle => fn_output = "Other"

\* C15 witness: a title with capital letters and keywords of two categories was
\* given the category that comes first in the table
C15_Witness ==
    /\ prog = "brand" /\ pc = "exit"
    /\ Hit(2, fn_input) /\ Hit(1, fn_input)
    /\ ~Contains(brands[1].keywords[1], fn_input)
    /\ fn_output = "Apple"

\* the number n as price_of gives it
Number(num, scale) == [null |-> FALSE, num |-> num, scale |-> scale]

\* C16: the price parser gives a number or null; "1 200 AZN", "1,200", "",
\* "N/A", "850.50" give 1200, 1200, null, null, 850.5; and no record keeps
\* an unparsable price as a sentinel string.
C16_PriceParser ==
    /\ (prog = "price" /\ pc = "exit") =>
          /\ fn_output.null \in BOOLEAN
          /\ fn_input = <<"1", " ", "2", "0", "0", " ", "A", "Z", "N">>
                => fn_output = Number(1200, 0)
          /\ fn_input = <<"1", ",", "2", "0", "0">> => fn_output = Number(1200, 0)
          /\ fn_input = <<>> => fn_output = Null
          /\ fn_input = <<"N", "/", "A">> => fn_output = Null
          /\ fn_input = <<"8", "5", "0", ".", "5", "0">> => fn_output = Number(8505, 1)
    /\ (prog = "parser" /\ pc = "exit") =>
          \A i \in 1..Len(fn_output.products) : fn_output.products[i].price # NA

\* the cursor token in the query string of a link, NoCursor if it has none
CursorOf(href) == IF href = NoHref THEN NoCursor ELSE cursor_search(href)

\* C17: extract_next_cursor gives the cursor token of the "next" link of the
\* pagination block, and null exactly when there is no pagination block, no
\* next link, or no cursor token in that link; "...cursor=abc123" gives
\* "abc123".
C17_NextLinkCursor ==
    (prog = "cursor" /\ pc = "exit") =>
        LET p == fn_input.pagination
        IN  /\ fn_output = IF p.present /\ p.next # 0
                           THEN CursorOf(p.links[p.next])
                           ELSE NoCursor
            /\ (p.present /\ p.links = <<Hrefs.next>>)
                  => fn_output = <<"a", "b", "c", "1", "2", "3">>

\* C18: with an integer max_pages, zero included, at most max_pages pages
\* are fetched.
C18_PageLimit ==
    /\ (prog = "robust" /\ max_pages # NoLimit) => fetches <= max_pages
    /\ prog = "laptops" => fetches <= max_pages

\* C19: the session report of scrape_all gives the number of pages fetched,
\* which is the sum of the usage counters, and the number of records
\* accumulated.
C19_Report ==
    (prog = "robust" /\ report # NoReport) =>
        /\ report.pages = fetches
        /\ fetches = methods_used.proxy + methods_used.direct + methods_used.failed
        /\ report.products = Len(all_products)

===========================================================================
